---- MODULE Spec2Model ----
(***************************************************************************)
(* Observation request intake of macro-consortium/schedule-request:        *)
(* scheduling.py (coordinate normalisation, duplicate detection, single    *)
(* and batch insertion, edit) over an SQLite observations table that is    *)
(* shared by several connections.                                          *)
(*                                                                         *)
(* Spec is the request store under concurrent callers; CoordSpec applies   *)
(* ra_dec_check to coordinate pairs; SessionSpec is the session manager of *)
(* user_db.py under a clock; AccountSpec adds login_user and               *)
(* reset_password; ParseSpec applies parse_schedule_file to schedule       *)
(* files; GenSpec is add_user giving out observer codes, and GenLiveSpec   *)
(* the same with the loop of generate_observer_code running on.            *)
(*                                                                         *)
(* Text values are TLA+ strings.  A coordinate string is read through      *)
(* Literal, which gives the syntactic structure float() and split(":")     *)
(* find in it; numbers are kept exactly, in ticks of 1/3600 of a unit      *)
(* (second of time for hours, arcsecond for degrees).  FloatText is the    *)
(* text SQLite stores when a Python float is bound to a TEXT column.       *)
(***************************************************************************)
EXTENDS Integers, Sequences, FiniteSets, TLC

VARIABLES
    table,       \* committed rows of the observations table
    staged,      \* staged[c]: rows inserted on connection c and not yet committed
    txn,         \* txn[c]: "none", or "write" when c has an open write transaction
    pc,          \* pc[c]: position of caller c: "idle", "insert", "ret"
    req,         \* req[c]: arguments of the call caller c is in
    res,         \* res[c]: outcome of the call caller c has just finished
    mainModule,  \* TRUE when scheduling.py runs as __main__ (global `connection` is set)
    coord,       \* a coordinate pair on its way through ra_dec_check
    users,       \* rows of the users table
    sessions,    \* rows of the sessions table
    now,         \* the time (UTC), in ticks
    tz,          \* the host's time zone: hours its local time is ahead of UTC
    advances,    \* how many times the clock has been moved on
    log,         \* log[token]: how and when the session was started, and
                 \* whether end_session has been called on it
    sres,        \* the last call of the session manager and its outcome
    file,        \* the schedule file handed to parse_schedule_file
    parsed,      \* what parse_schedule_file made of it
    codes,       \* the observer codes of the users table
    gen          \* the call of generate_observer_code that add_user is in

schedVars == <<table, staged, txn, pc, req, res, mainModule>>
coordVars == <<coord>>
sessionVars == <<users, sessions, now, tz, advances, log, sres>>
parseVars == <<file, parsed>>
genVars == <<codes, gen>>

vars == <<schedVars, coordVars, sessionVars, parseVars, genVars>>

----------------------------------------------------------------------------
(* Bounds *)

MaxInitRows == 2      \* rows already in observations.db when the program starts
MaxBatchLen == 2      \* longest sequence handed to add_batch_observations
MaxSessions == 2      \* sessions started in one behaviour
MaxAdvances == 1      \* times the clock is moved on in one behaviour
MaxLines == 2         \* lines of a schedule file
MaxUsers == 30        \* users that add_user is called for
TicksPerSecond == 2   \* resolution of the clock: ticks in one second

Callers == {"A", "B"} \* callers, each on its own sqlite3 connection

----------------------------------------------------------------------------
(* Values *)

NULL == "<NULL>"        \* SQL NULL / Python None
NoExc == "<none>"       \* the call raised nothing

Inserted == 1
Duplicate == 0

TicksPerUnit == 3600

SqliteErrors == {"OperationalError", "IntegrityError"}

DEFAULT_VALUES ==
    [priority |-> "normal", status |-> "pending", target_name |-> NULL,
     observation_type |-> "default", filters |-> NULL, nexp |-> 1,
     exposure_time |-> 1, cadence |-> NULL]

EmptyDict == [k \in {} |-> NULL]     \* {} : no session, or no updates

\* dict.get(key, default)
Get(d, key, default) == IF key \in DOMAIN d THEN d[key] ELSE default

\* {**a, **b}
Merge(a, b) ==
    [k \in DOMAIN a \cup DOMAIN b |-> IF k \in DOMAIN b THEN b[k] ELSE a[k]]

----------------------------------------------------------------------------
(* Coordinate strings *)

Sexa(minus, a, b, c) ==
    [form |-> "sexagesimal", minus |-> minus, parts |-> <<a, b, c>>]
Decimal(t) == [form |-> "decimal", ticks |-> t]
Malformed == [form |-> "malformed"]

\* What float() and split(":") see in each coordinate string of the model.
Literal ==
    ("0.0"       :> Decimal(0)) @@
    ("0"         :> Decimal(0)) @@
    ("15"        :> Decimal(15 * TicksPerUnit)) @@
    ("360"       :> Decimal(360 * TicksPerUnit)) @@
    ("41.5"      :> Decimal(149400)) @@
    ("-0.5"      :> Decimal(-1800)) @@
    ("91"        :> Decimal(91 * TicksPerUnit)) @@
    ("abc"       :> Malformed) @@
    ("00:00:00"  :> Sexa(FALSE, 0, 0, 0)) @@
    ("01:00:00"  :> Sexa(FALSE, 1, 0, 0)) @@
    ("25:00:00"  :> Sexa(FALSE, 25, 0, 0)) @@
    ("+41:30:00" :> Sexa(FALSE, 41, 30, 0)) @@
    ("-00:30:00" :> Sexa(TRUE, 0, 30, 0)) @@
    ("-41:30:00" :> Sexa(TRUE, 41, 30, 0)) @@
    ("+00:30:00" :> Sexa(FALSE, 0, 30, 0)) @@
    ("1.0"       :> Decimal(TicksPerUnit)) @@
    ("0.5"       :> Decimal(1800)) @@
    ("-41.5"     :> Decimal(-149400)) @@
    ("90"        :> Decimal(90 * TicksPerUnit)) @@
    ("-90"       :> Decimal(-90 * TicksPerUnit))

\* Text SQLite writes for a float bound to a TEXT column.
FloatText(x) ==
    CASE x = 0      -> "0.0"
      [] x = 3600   -> "1.0"
      [] x = 1800   -> "0.5"
      [] x = -1800  -> "-0.5"
      [] x = 149400 -> "41.5"
      [] x = -149400 -> "-41.5"
      [] x = 324000 -> "90.0"
      [] x = -324000 -> "-90.0"
      [] OTHER      -> "float:" \o ToString(x)

hms_to_hours(lit) ==
    LET p == lit.parts
        first == IF lit.minus THEN 0 - p[1] ELSE p[1]
    IN  first * TicksPerUnit + p[2] * 60 + (IF Len(p) > 2 THEN p[3] ELSE 0)

\* float("-00") is -0.0 and -0.0 < 0 is False: the sign is lost when the
\* degrees component is zero.
dms_to_degrees(lit) ==
    LET p == lit.parts
        sign == IF lit.minus /\ p[1] > 0 THEN 0 - 1 ELSE 1
    IN  sign * (p[1] * TicksPerUnit + p[2] * 60 + (IF Len(p) > 2 THEN p[3] ELSE 0))

\* ra_dec_check with its two range checks left out.
ra_dec_check_NoRange(ra, dec) ==
    IF Literal[ra].form = "malformed" \/ Literal[dec].form = "malformed"
    THEN [exc |-> "ValueError", ra |-> 0, dec |-> 0]
    ELSE [exc |-> NoExc,
          ra |-> IF Literal[ra].form = "sexagesimal"
                 THEN hms_to_hours(Literal[ra]) ELSE Literal[ra].ticks \div 15,
          dec |-> IF Literal[dec].form = "sexagesimal"
                  THEN dms_to_degrees(Literal[dec]) ELSE Literal[dec].ticks]

\* ra_dec_check(ra, dec): [exc, ra, dec], ra in hours and dec in degrees (ticks).
ra_dec_check(ra, dec) ==
    LET lra == Literal[ra]
        ldec == Literal[dec]
    IN  IF lra.form = "malformed" \/ ldec.form = "malformed"
        THEN [exc |-> "ValueError", ra |-> 0, dec |-> 0]
        ELSE LET ra_hours == IF lra.form = "sexagesimal"
                             THEN hms_to_hours(lra)
                             ELSE lra.ticks \div 15
                 dec_degrees == IF ldec.form = "sexagesimal"
                                THEN dms_to_degrees(ldec)
                                ELSE ldec.ticks
             IN  IF ~(0 <= ra_hours /\ ra_hours < 24 * TicksPerUnit)
                 THEN [exc |-> "ValueError", ra |-> ra_hours, dec |-> dec_degrees]
                 ELSE IF ~(0 - 90 * TicksPerUnit <= dec_degrees
                           /\ dec_degrees <= 90 * TicksPerUnit)
                 THEN [exc |-> "ValueError", ra |-> ra_hours, dec |-> dec_degrees]
                 ELSE [exc |-> NoExc, ra |-> ra_hours, dec |-> dec_degrees]

\* ra_dec_check handed the floats it returns: `":" in ra` on a float raises
\* TypeError (argument of type 'float' is not iterable).
ra_dec_check_floats(ra_hours, dec_degrees) ==
    [exc |-> "TypeError", ra |-> ra_hours, dec |-> dec_degrees]

----------------------------------------------------------------------------
(* The observations table.  A row carries request_id, observer_code and the  *)
(* columns the duplicate key is made of.  observation_type, priority and the *)
(* reposition columns are handled by the code exactly like status (NOT NULL, *)
(* defaulted, compared with =), and the eight time/date columns exactly like *)
(* cadence (nullable, compared with IS ... OR =); status and cadence stand   *)
(* for them.                                                                 *)

NotNullText == {"observer_code", "target_name", "ra", "dec", "status"}

Db == [table |-> table, staged |-> staged, txn |-> txn]

\* Rows a statement on connection c sees: committed ones and its own staged ones.
View(db, c) == db.table \cup db.staged[c]

\* SQLite lets one connection write at a time: a statement that writes fails
\* with "database is locked" while another connection's write transaction is open.
LockFree(db, c) == \A d \in Callers \ {c} : db.txn[d] # "write"

SetMax(S) == IF S = {} THEN 0 ELSE CHOOSE x \in S : \A y \in S : y <= x

\* request_id INTEGER PRIMARY KEY AUTOINCREMENT
NextRequestId(rows) == SetMax({r.request_id : r \in rows}) + 1

\* connection.commit() / connection.rollback()
Commit(db, c) ==
    [table |-> db.table \cup db.staged[c],
     staged |-> [db.staged EXCEPT ![c] = {}],
     txn |-> [db.txn EXCEPT ![c] = "none"]]

Rollback(db, c) ==
    [table |-> db.table,
     staged |-> [db.staged EXCEPT ![c] = {}],
     txn |-> [db.txn EXCEPT ![c] = "none"]]

\* SQL `a = b`: never true when either side is NULL.
SqlEq(a, b) == a # NULL /\ b # NULL /\ a = b

\* SQL `a IS b OR a = b`: NULL-safe equality.
SqlIs(a, b) == a = b

\* is_duplicate_request(cursor, observer_code, **kwargs), over the rows the
\* cursor sees.  kwargs are the caller's own field values.
is_duplicate_request(rows, observer_code, kwargs) ==
    \E r \in rows :
        /\ SqlEq(r.observer_code, observer_code)
        /\ SqlEq(r.ra, kwargs.ra)
        /\ SqlEq(r.dec, kwargs.dec)
        /\ SqlEq(r.target_name,
                 Get(kwargs, "target_name", "J2000-" \o kwargs.ra \o kwargs.dec))
        /\ SqlEq(r.filters, Get(kwargs, "filters", NULL))
        /\ r.nexp = kwargs.nexp
        /\ r.exposure_time = kwargs.exposure_time
        /\ SqlEq(r.status, Get(kwargs, "status", DEFAULT_VALUES.status))
        /\ SqlIs(r.cadence, Get(kwargs, "cadence", NULL))

\* The SELECT of batch_idgen is written with four opening quotes, so the
\* statement text starts with a stray double quote and SQLite rejects it.
BatchIdQueryParses == FALSE

\* A batch_idgen that returns a number.
batch_idgen_Allocates(db) ==
    [exc |-> NoExc, val |-> 1]

\* batch_idgen(): [exc, val].  It reads the module global `connection`, which
\* exists only when scheduling.py runs as __main__.
batch_idgen(db) ==
    IF ~mainModule THEN [exc |-> "NameError", val |-> 0]
    ELSE IF ~BatchIdQueryParses THEN [exc |-> "OperationalError", val |-> 0]
    ELSE IF db.table # {} THEN [exc |-> "TypeError", val |-> 0]   \* tuple + 1
    ELSE batch_idgen_Allocates(db)

ValidSession(session) == "observer_code" \in DOMAIN session

\* The row the INSERT of add_observation_request writes for params.
InsertedRow(rows, observer_code, params) ==
    [request_id |-> NextRequestId(rows),
     observer_code |-> observer_code,
     target_name |-> params.target_name,
     batch_id |-> params.batch_id,
     ra |-> FloatText(params.ra),
     dec |-> FloatText(params.dec),
     filters |-> params.filters,
     nexp |-> params.nexp,
     exposure_time |-> params.exposure_time,
     status |-> params.status,
     cadence |-> params.cadence]

\* add_check with the duplicate branch writing the row all the same.
add_check_DuplicateWrites(db, c, session, kwargs) ==
    IF ~ValidSession(session)
    THEN [done |-> TRUE, db |-> db, exc |-> "ValueError", ret |-> Duplicate]
    ELSE IF ~({"ra", "dec"} \subseteq DOMAIN kwargs)
    THEN [done |-> TRUE, db |-> db, exc |-> "KeyError", ret |-> Duplicate]
    ELSE IF ra_dec_check(kwargs.ra, kwargs.dec).exc # NoExc
    THEN [done |-> TRUE, db |-> db, exc |-> "ValueError", ret |-> Duplicate]
    ELSE IF ~({"nexp", "exposure_time"} \subseteq DOMAIN kwargs)
    THEN [done |-> TRUE, db |-> db, exc |-> "KeyError", ret |-> Duplicate]
    ELSE IF is_duplicate_request(View(db, c), session.observer_code, kwargs)
    THEN [done |-> TRUE,
          db |-> [db EXCEPT !.staged[c] = @ \cup
                    {[r EXCEPT !.request_id = NextRequestId(View(db, c))] :
                        r \in {x \in View(db, c) :
                                 is_duplicate_request({x}, session.observer_code,
                                                      kwargs)}},
                            !.txn[c] = "write"],
          exc |-> NoExc, ret |-> Duplicate]
    ELSE [done |-> FALSE, db |-> db, exc |-> NoExc, ret |-> Inserted]

\* add_observation_request up to its duplicate check: [done, db, exc, ret];
\* done = FALSE when the call goes on to batch_idgen() and the INSERT.
add_check(db, c, session, kwargs) ==
    IF ~ValidSession(session)
    THEN [done |-> TRUE, db |-> db, exc |-> "ValueError", ret |-> Duplicate]
    ELSE IF ~({"ra", "dec"} \subseteq DOMAIN kwargs)
    THEN [done |-> TRUE, db |-> db, exc |-> "KeyError", ret |-> Duplicate]
    ELSE IF ra_dec_check(kwargs.ra, kwargs.dec).exc # NoExc
    THEN [done |-> TRUE, db |-> db, exc |-> "ValueError", ret |-> Duplicate]
    ELSE IF ~({"nexp", "exposure_time"} \subseteq DOMAIN kwargs)
    THEN [done |-> TRUE, db |-> db, exc |-> "KeyError", ret |-> Duplicate]
    ELSE IF is_duplicate_request(View(db, c), session.observer_code, kwargs)
    THEN [done |-> TRUE, db |-> db, exc |-> NoExc, ret |-> Duplicate]
    ELSE [done |-> FALSE, db |-> db, exc |-> NoExc, ret |-> Inserted]

\* params as the INSERT binds them: the defaults, the caller's fields over
\* them, the normalised ra and dec, and the batch_id.
InsertParams(kwargs, norm, allocated) ==
    Merge(Merge(DEFAULT_VALUES, kwargs),
          [ra |-> norm.ra, dec |-> norm.dec,
           batch_id |-> Get(kwargs, "batch_id", ToString(allocated))])

\* cursor.execute(insert_query, ...) and the commit under `if save`.
ExecuteInsert(db, c, observer_code, save, params) ==
    IF ~LockFree(db, c)
    THEN [db |-> db, exc |-> "OperationalError", ret |-> Duplicate]
    ELSE IF params.target_name = NULL
    THEN [db |-> [db EXCEPT !.txn[c] = "write"], exc |-> "IntegrityError",
          ret |-> Duplicate]
    ELSE IF save
    THEN [db |-> [db EXCEPT !.table = @ \cup db.staged[c]
                              \cup {InsertedRow(View(db, c), observer_code, params)},
                            !.staged[c] = {},
                            !.txn[c] = "none"],
          exc |-> NoExc, ret |-> Inserted]
    ELSE [db |-> [db EXCEPT !.staged[c] = @
                              \cup {InsertedRow(View(db, c), observer_code, params)},
                            !.txn[c] = "write"],
          exc |-> NoExc, ret |-> Inserted]

\* Line 283 on, given what batch_idgen() gave.
InsertWith(b, db, c, session, save, kwargs) ==
    IF b.exc # NoExc
    THEN [db |-> db, exc |-> b.exc, ret |-> Duplicate]
    ELSE ExecuteInsert(db, c, session.observer_code, save,
                       InsertParams(kwargs, ra_dec_check(kwargs.ra, kwargs.dec),
                                    b.val))

\* add_observation_request from batch_idgen() on: [db, exc, ret].
add_insert(db, c, session, save, kwargs) ==
    InsertWith(batch_idgen(db), db, c, session, save, kwargs)

\* Lines 279-302, given what the checks up to the duplicate check gave.
AfterCheck(chk, db, c, session, save, kwargs) ==
    IF chk.done
    THEN [db |-> chk.db, exc |-> chk.exc, ret |-> chk.ret]
    ELSE add_insert(chk.db, c, session, save, kwargs)

\* add_observation_request(cursor, session, save, **kwargs) as one call.
add_observation_request(db, c, session, save, kwargs) ==
    AfterCheck(add_check(db, c, session, kwargs), db, c, session, save, kwargs)

\* `successful += state` after one add_observation_request of the loop.
BatchCount(prev, r) ==
    IF r.exc # NoExc
    THEN [db |-> r.db, exc |-> r.exc, successful |-> prev.successful]
    ELSE [db |-> r.db, exc |-> NoExc, successful |-> prev.successful + r.ret]

\* One iteration of the for loop; prev is the state after the earlier ones.
BatchStep(prev, c, session, obs) ==
    IF prev.exc # NoExc
    THEN prev
    ELSE BatchCount(prev, add_observation_request(prev.db, c, session, FALSE, obs))

\* The for loop of add_batch_observations: [db, exc, successful] after the
\* loop has ended, normally or by the first exception.
batch_loop(db, c, session, observations) ==
    LET run[i \in 0..Len(observations)] ==
            IF i = 0
            THEN [db |-> db, exc |-> NoExc, successful |-> 0]
            ELSE BatchStep(run[i - 1], c, session, observations[i])
    IN  run[Len(observations)]

\* BatchEnd with the rollback of the except branch left out.
BatchEnd_NoRollback(l, c, n) ==
    IF l.exc = NoExc
    THEN [db |-> Commit(l.db, c), exc |-> NoExc, error |-> NoExc,
          successful |-> l.successful, failed |-> n - l.successful]
    ELSE IF l.exc \in SqliteErrors
    THEN [db |-> l.db, exc |-> NoExc, error |-> l.exc,
          successful |-> l.successful, failed |-> 0]
    ELSE [db |-> l.db, exc |-> l.exc, error |-> NoExc,
          successful |-> l.successful, failed |-> 0]

\* What add_batch_observations does once the loop has ended in l: commit and
\* the two logged counts, or rollback and the logged error, or neither when
\* what was raised is no sqlite3.Error.
BatchEnd(l, c, n) ==
    IF l.exc = NoExc
    THEN [db |-> Commit(l.db, c), exc |-> NoExc, error |-> NoExc,
          successful |-> l.successful, failed |-> n - l.successful]
    ELSE IF l.exc \in SqliteErrors
    THEN [db |-> Rollback(l.db, c), exc |-> NoExc, error |-> l.exc,
          successful |-> l.successful, failed |-> 0]
    ELSE [db |-> l.db, exc |-> l.exc, error |-> NoExc,
          successful |-> l.successful, failed |-> 0]

\* add_batch_observations(connection, session, observations):
\* exc is what the caller gets raised, error what was caught and logged,
\* successful/failed the two counts it logs after its commit.
add_batch_observations(db, c, session, observations) ==
    BatchEnd(batch_loop(db, c, session, observations), c, Len(observations))

\* The UPDATE without its WHERE clause.
Updated_AllRows(r, request_id, updates) ==
    [k \in DOMAIN r |-> IF k \in DOMAIN updates THEN updates[k] ELSE r[k]]

\* UPDATE observations SET <updates> WHERE request_id = ?
Updated(r, request_id, updates) ==
    IF r.request_id = request_id
    THEN [k \in DOMAIN r |-> IF k \in DOMAIN updates THEN updates[k] ELSE r[k]]
    ELSE r

\* The try block of edit_observation_request: the UPDATE, the commit, and
\* the except branch that logs a sqlite3.Error.
edit_update(db, c, request_id, updates) ==
    IF ~LockFree(db, c)
    THEN [db |-> db, exc |-> NoExc, error |-> "OperationalError"]
    ELSE IF /\ \E r \in View(db, c) : r.request_id = request_id
            /\ \E k \in DOMAIN updates \cap NotNullText : updates[k] = NULL
    THEN [db |-> [db EXCEPT !.txn[c] = "write"], exc |-> NoExc,
          error |-> "IntegrityError"]
    ELSE [db |-> [table |-> {Updated(r, request_id, updates) : r \in View(db, c)},
                  staged |-> [db.staged EXCEPT ![c] = {}],
                  txn |-> [db.txn EXCEPT ![c] = "none"]],
          exc |-> NoExc, error |-> NoExc]

\* edit_observation_request without its `if not kwargs` return: the UPDATE
\* with an empty SET clause is a syntax error, caught and logged.
edit_observation_request_NoEmptyCheck(db, c, request_id, updates) ==
    IF "request_id" \in DOMAIN updates
    THEN [db |-> db, exc |-> "TypeError", error |-> NoExc]
    ELSE IF DOMAIN updates = {}
    THEN [db |-> db, exc |-> NoExc, error |-> "OperationalError"]
    ELSE edit_update(db, c, request_id, updates)

\* edit_observation_request taking a request_id among the updates.
edit_observation_request_SetsRequestId(db, c, request_id, updates) ==
    IF DOMAIN updates = {}
    THEN [db |-> db, exc |-> NoExc, error |-> NoExc]
    ELSE edit_update(db, c, request_id, updates)

\* edit_observation_request(connection, request_id, **kwargs):
\* exc is what the caller gets raised, error what was caught and logged.
\* A keyword named request_id collides with the positional parameter and the
\* call itself raises TypeError.
edit_observation_request(db, c, request_id, updates) ==
    IF "request_id" \in DOMAIN updates
    THEN [db |-> db, exc |-> "TypeError", error |-> NoExc]
    ELSE IF DOMAIN updates = {}
    THEN [db |-> db, exc |-> NoExc, error |-> NoExc]
    ELSE edit_update(db, c, request_id, updates)

----------------------------------------------------------------------------
(* The session manager of user_db.py.  Times are ticks; a timestamp text     *)
(* 'YYYY-MM-DD HH:MM:SS[.ffffff]' is [sec, frac]: its whole seconds and its  *)
(* fraction in ticks, frac = 0 when the text has no fractional part.         *)

Minute == 60 * TicksPerSecond
Hour == 60 * Minute

NoUser == 0             \* None where a user_id is expected; user_ids start at 1

\* datetime.now(): the naive local time of the host.
datetime_now(t) == t + tz * Hour

\* The text sqlite3 stores for a datetime: isoformat(" "), which leaves the
\* fraction out when the microsecond is 0.
DatetimeText(t) == [sec |-> t \div TicksPerSecond, frac |-> t % TicksPerSecond]

\* CURRENT_TIMESTAMP: UTC, whole seconds.
CURRENT_TIMESTAMP(t) == [sec |-> t \div TicksPerSecond, frac |-> 0]

\* a > b between two timestamp texts: SQLite compares them as text, and a
\* text with a fraction is greater than the same text without one.
TextGreater(a, b) == a.sec > b.sec \/ (a.sec = b.sec /\ a.frac > b.frac)

\* secrets.token_hex(16): 128 random bits, taken never to repeat: the n-th
\* token generated.
token_hex(n) == "token" \o ToString(n)

\* start_session without the check that the user exists.
start_session_NoUserCheck(rows, t, session_id, user_id, duration_minutes) ==
    [sessions |-> rows \cup
        {[session_id |-> session_id, user_id |-> user_id,
          observer_code |-> NULL,
          created_at |-> CURRENT_TIMESTAMP(t),
          expires_at |-> DatetimeText(datetime_now(t)
                                      + duration_minutes * Minute)]},
     exc |-> NoExc, token |-> session_id]

\* start_session(connection, user_id, duration_minutes) at time t, with
\* session_id the token generated: [sessions, exc, token].
start_session(rows, t, session_id, user_id, duration_minutes) ==
    IF ~\E u \in users : u.user_id = user_id
    THEN [sessions |-> rows, exc |-> "ValueError", token |-> NULL]
    ELSE [sessions |-> rows \cup
            {[session_id |-> session_id, user_id |-> user_id,
              observer_code |->
                  (CHOOSE u \in users : u.user_id = user_id).observer_code,
              created_at |-> CURRENT_TIMESTAMP(t),
              expires_at |-> DatetimeText(datetime_now(t)
                                          + duration_minutes * Minute)]},
          exc |-> NoExc, token |-> session_id]

\* validate_session with its comparison turned round.
validate_session_Reversed(rows, t, session_id) ==
    IF \E s \in rows : /\ s.session_id = session_id
                       /\ TextGreater(CURRENT_TIMESTAMP(t), s.expires_at)
    THEN (CHOOSE s \in rows : s.session_id = session_id).user_id
    ELSE NoUser

\* validate_session(connection, session_id) at time t: the user_id or None.
validate_session(rows, t, session_id) ==
    IF \E s \in rows : /\ s.session_id = session_id
                       /\ TextGreater(s.expires_at, CURRENT_TIMESTAMP(t))
    THEN (CHOOSE s \in rows : s.session_id = session_id).user_id
    ELSE NoUser

\* end_session without its DELETE.
end_session_NoDelete(rows, session_id) ==
    rows

\* end_session with a DELETE that has no WHERE clause.
end_session_DeleteAll(rows, session_id) ==
    {}

\* end_session(connection, session_id): the rows after DELETE and commit.
end_session(rows, session_id) ==
    {s \in rows : s.session_id # session_id}

----------------------------------------------------------------------------
(* Accounts of user_db.py.  A value read from a row is [type, val], type the *)
(* Python type sqlite3 hands it over as.  A bcrypt hash is the text "$2b$"   *)
(* followed by the password it was made of; the salt is left out, since      *)
(* checkpw tells nothing but whether the hash was made of the password.      *)

Value(type, val) == [type |-> type, val |-> val]

\* bcrypt.hashpw(password.encode('utf-8'), salt): bytes.
hash_password(password) == Value("bytes", "$2b$" \o password)

\* bcrypt.checkpw(password.encode('utf-8'), hashed): [exc, val].  bcrypt
\* takes bytes only.
check_password(password, hashed) ==
    IF hashed.type # "bytes" THEN [exc |-> "TypeError", val |-> FALSE]
    ELSE [exc |-> NoExc, val |-> hashed = hash_password(password)]

\* A row of SELECT * FROM users: the columns in the order of CREATE TABLE.
SelectStar(u) ==
    <<Value("int", u.user_id), u.password_hash, Value("str", u.email),
      Value("str", u.first_name), Value("str", u.last_name),
      Value("str", u.institution), Value("str", u.observer_code)>>

\* row[i] of Python: columns count from 0.
Column(row, i) == row[i + 1]

\* validate_user_by_identifier(connection, identifier): fetchone() of the
\* users whose email or observer_code is the identifier, <<>> for None.
validate_user_by_identifier(identifier) ==
    LET found == {u \in users : \/ u.email = identifier
                                \/ u.observer_code = identifier}
    IN  IF found = {} THEN <<>>
        ELSE SelectStar(CHOOSE u \in found :
                           \A v \in found : u.user_id <= v.user_id)

\* login_user(connection, identifier, password) at time t, with session_id
\* the token start_session would generate: [sessions, exc, token].
login_user(rows, t, session_id, identifier, password) ==
    LET user == validate_user_by_identifier(identifier)
        stored_hash == Column(user, 2)
        matches == check_password(password, stored_hash)
    IN  IF user = <<>>
        THEN [sessions |-> rows, exc |-> NoExc, token |-> NULL]
        ELSE IF matches.exc # NoExc
        THEN [sessions |-> rows, exc |-> matches.exc, token |-> NULL]
        ELSE IF matches.val
        THEN start_session(rows, t, session_id, Column(user, 0).val, 60)
        ELSE [sessions |-> rows, exc |-> NoExc, token |-> NULL]

\* reset_password(connection, session_id, user_id, new_password) at time t:
\* the users table after it.
reset_password(rows, t, session_id, user_id, new_password) ==
    IF validate_session(rows, t, session_id) = NoUser THEN users
    ELSE {IF u.user_id = user_id
          THEN [u EXCEPT !.password_hash = hash_password(new_password)]
          ELSE u : u \in users}

----------------------------------------------------------------------------
(* Schedule files.  A path is the sequence of its characters.  A line of    *)
(* text is the sequence of its pieces: SP is a run of blanks, Q a double    *)
(* quote, every other piece a run of other characters; pieces with no SP    *)
(* between them make one word.  A word that the code tests the beginning of *)
(* is cut after that beginning: target_name is <<"target", "_name">>.       *)

SP == " "
Q == "\""

SetMin(S) == IF S = {} THEN 0 ELSE CHOOSE x \in S : \A y \in S : x <= y

UpperCase ==
    <<"A", "B", "C", "D", "E", "F", "G", "H", "I", "J", "K", "L", "M",
      "N", "O", "P", "Q", "R", "S", "T", "U", "V", "W", "X", "Y", "Z">>
LowerCase ==
    <<"a", "b", "c", "d", "e", "f", "g", "h", "i", "j", "k", "l", "m",
      "n", "o", "p", "q", "r", "s", "t", "u", "v", "w", "x", "y", "z">>

\* str.lower()
lower(p) ==
    [i \in 1..Len(p) |->
        IF \E k \in 1..Len(UpperCase) : UpperCase[k] = p[i]
        THEN LowerCase[CHOOSE k \in 1..Len(UpperCase) : UpperCase[k] = p[i]]
        ELSE p[i]]

\* os.path.splitext(p)[1]: from the last dot of the last component of the
\* path, when a character other than a dot comes before it there.
splitext(p) ==
    LET sepIndex == SetMax({i \in 1..Len(p) : p[i] = "/"})
        dotIndex == SetMax({i \in 1..Len(p) : p[i] = "."})
    IN  IF /\ dotIndex > sepIndex
           /\ \E k \in (sepIndex + 1)..(dotIndex - 1) : p[k] # "."
        THEN SubSeq(p, dotIndex, Len(p))
        ELSE <<>>

CsvExtensions == {<<".", "c", "s", "v">>, <<".", "e", "c", "s", "v">>}
LineExtensions == {<<".", "s", "c", "h">>, <<".", "t", "x", "t">>}

\* The words int() makes an integer of, among the words of the model.
IntLiteral == ("1" :> 1) @@ ("3" :> 3) @@ ("30" :> 30)

\* int(x), x a word: [exc, val].
int(x) ==
    IF x \in DOMAIN IntLiteral THEN [exc |-> NoExc, val |-> IntLiteral[x]]
    ELSE [exc |-> "ValueError", val |-> 0]

\* int(obs.get(key, 1))
int_get(obs, key) ==
    IF key \in DOMAIN obs THEN int(obs[key]) ELSE [exc |-> NoExc, val |-> 1]

\* The text of a sequence of pieces.
RECURSIVE join(_)
join(s) == IF s = <<>> THEN "" ELSE s[1] \o join(Tail(s))

\* line.strip()
strip(line) ==
    LET ink == {i \in 1..Len(line) : line[i] # SP}
    IN  IF ink = {} THEN <<>> ELSE SubSeq(line, SetMin(ink), SetMax(ink))

\* line.startswith(prefix)
startswith(line, prefix) == line # <<>> /\ line[1] = prefix

\* parts[1] of parts = line.split('"'), None when len(parts) is 1.
quoted(line) ==
    LET qs == {i \in 1..Len(line) : line[i] = Q}
        later == {i \in qs : i > SetMin(qs)}
        end == IF later = {} THEN Len(line) + 1 ELSE SetMin(later)
    IN  IF qs = {} THEN NULL
        ELSE join(SubSeq(line, SetMin(qs) + 1, end - 1))

\* line.split()
RECURSIVE split(_)
split(line) ==
    IF line = <<>> THEN <<>>
    ELSE IF line[1] = SP THEN split(Tail(line))
    ELSE LET sps == {i \in 1..Len(line) : line[i] = SP}
             n == IF sps = {} THEN Len(line) + 1 ELSE SetMin(sps)
         IN  <<join(SubSeq(line, 1, n - 1))>>
             \o split(SubSeq(line, n, Len(line)))

FieldKeys ==
    {"ra", "dec", "nexp", "exposure_time", "filters", "readout", "cadence",
     "utstart"}

\* batch_idgen() + group_num, group_num a word: the exception it raises.
group_batch_id(db) ==
    IF batch_idgen(db).exc # NoExc THEN batch_idgen(db).exc
    ELSE "TypeError"                                       \* int + str

\* The loop over the words of an observation line: the exception that ends
\* it, or the fields it has put into obs.
parse_fields(db, params) ==
    LET n == Len(params)
        raising == {i \in 1..n : \/ params[i] = "group"
                                 \/ params[i] \in FieldKeys /\ i = n}
        first == SetMin(raising)
        found == {k \in FieldKeys : \E i \in 1..n : params[i] = k}
    IN  IF raising # {}
        THEN [exc |-> IF first = n THEN "IndexError" ELSE group_batch_id(db),
              obs |-> EmptyDict]
        ELSE [exc |-> NoExc,
              obs |-> [k \in found |->
                         params[SetMax({i \in 1..n : params[i] = k}) + 1]]]

\* The try block of one observation line, already stripped: [exc, obs].
parse_line(db, line) ==
    LET target_name == quoted(line)
        f == parse_fields(db, split(line))
        nexp == int_get(f.obs, "nexp")
        exposure_time == int_get(f.obs, "exposure_time")
    IN  IF target_name = NULL \/ target_name = ""
        THEN [exc |-> "ValueError", obs |-> EmptyDict]
        ELSE IF f.exc # NoExc THEN [exc |-> f.exc, obs |-> EmptyDict]
        ELSE IF ~({"ra", "dec"} \subseteq DOMAIN f.obs)
        THEN [exc |-> "ValueError", obs |-> EmptyDict]
        ELSE IF nexp.exc # NoExc \/ exposure_time.exc # NoExc
        THEN [exc |-> "ValueError", obs |-> EmptyDict]
        ELSE [exc |-> NoExc,
              obs |-> Merge(f.obs,
                            [target_name |-> target_name, nexp |-> nexp.val,
                             exposure_time |-> exposure_time.val])]

\* Whether the loop over the lines appends an observation for the line.
Appends(db, line) ==
    /\ ~(line = <<>> \/ startswith(line, "#"))
    /\ \/ startswith(line, "source")
       \/ startswith(line, "target")
       \/ startswith(line, "target_name")
    /\ parse_line(db, line).exc = NoExc

\* The loop over the lines of a .sch or .txt file: the observations.
parse_lines(db, lines) ==
    LET stripped == [i \in 1..Len(lines) |-> strip(lines[i])]
        kept == SelectSeq(stripped, LAMBDA line : Appends(db, line))
    IN  [i \in 1..Len(kept) |-> parse_line(db, kept[i]).obs]

Raised(exc, msg) == [exc |-> exc, msg |-> msg, observations |-> <<>>]

\* pd.read_csv(file_path) and df.to_dict(orient='records')
read_csv(f) ==
    IF f.csv.exc # NoExc
    THEN Raised("ValueError", "Failed to parse schedule file")
    ELSE [exc |-> NoExc, msg |-> "", observations |-> f.csv.records]

\* An extension taken for one of a line-oriented file.
parse_other_AsLines(db, f, file_extension) ==
    [exc |-> NoExc, msg |-> "", observations |-> parse_lines(db, f.lines)]

\* The else branch: neither .csv, .ecsv, .sch nor .txt.
parse_other(db, f, file_extension) ==
    Raised("ValueError", "Unsupported file format")

\* The with block, on a file that open() has opened.
parse_opened(db, f, file_extension) ==
    IF file_extension \in CsvExtensions THEN read_csv(f)
    ELSE IF file_extension \in LineExtensions
    THEN [exc |-> NoExc, msg |-> "", observations |-> parse_lines(db, f.lines)]
    ELSE parse_other(db, f, file_extension)

\* parse_schedule_file without the test of an empty result.
parse_schedule_file_ReturnsEmpty(db, f) ==
    IF ~f.exists THEN Raised("FileNotFoundError", "")
    ELSE parse_opened(db, f, lower(splitext(f.path)))

\* parse_schedule_file(file_path): [exc, msg, observations].
parse_schedule_file(db, f) ==
    LET r == parse_opened(db, f, lower(splitext(f.path)))
    IN  IF ~f.exists THEN Raised("FileNotFoundError", "")
        ELSE IF r.exc # NoExc THEN r
        ELSE IF r.observations = <<>>
        THEN Raised("ValueError", "No valid observations found in the file.")
        ELSE r

----------------------------------------------------------------------------
(* Observer codes.  A name is the sequence of its characters. *)

\* s[i] of Python: characters count from 0.
CharAt(s, i) == s[i + 1]

\* c.lower() of one character.
LowerChar(c) == lower(<<c>>)[1]

\* chr(65 + k)
chr65(k) == UpperCase[k + 1]

\* base_code of generate_observer_code.
base_code(institution_code, first_name, last_name) ==
    institution_code \o LowerChar(CharAt(first_name, 0))
                     \o LowerChar(CharAt(last_name, 0))

\* The code the body of the while loop assigns.
next_code(institution_code, first_name, last_name, counter) ==
    IF counter < Len(first_name)
    THEN institution_code \o LowerChar(CharAt(first_name, counter))
                          \o LowerChar(CharAt(last_name, 0))
    ELSE IF counter < Len(last_name)
    THEN institution_code \o LowerChar(CharAt(first_name, 0))
                          \o LowerChar(CharAt(last_name, counter))
    ELSE institution_code \o chr65(counter % 26)
                          \o LowerChar(CharAt(last_name, 0))

\* counter, which Python lets grow without end.  The loop reads it in
\* counter < len(first_name), counter < len(last_name) and counter % 26 only:
\* past both lengths it is kept modulo 26.
Counter(n, first_name, last_name) ==
    IF /\ n - 26 >= Len(first_name)
       /\ n - 26 >= Len(last_name)
    THEN n - 26
    ELSE n

\* A while condition that never finds the code taken.
Taken_Never(code, existing_codes) ==
    FALSE

\* while code in existing_codes
Taken(code, existing_codes) ==
    code \in existing_codes

----------------------------------------------------------------------------
(* Inputs *)

Sessions == {[observer_code |-> "irm"], [observer_code |-> "jd"], EmptyDict}

Kw(ra, dec, name) ==
    [ra |-> ra, dec |-> dec, nexp |-> 1, exposure_time |-> 1,
     target_name |-> name, filters |-> "g"]

\* A request that leaves filters out.
KwNoFilters ==
    [ra |-> "0.0", dec |-> "41.5", nexp |-> 1, exposure_time |-> 1,
     target_name |-> "M31"]

\* A request that leaves target_name out.
KwNoName ==
    [ra |-> "0.0", dec |-> "41.5", nexp |-> 1, exposure_time |-> 1,
     filters |-> "g"]

\* A request that comes with its batch_id.
KwBatchId ==
    [ra |-> "0.0", dec |-> "41.5", nexp |-> 1, exposure_time |-> 1,
     target_name |-> "M33", filters |-> "g", batch_id |-> "5"]

\* Requests whose rows may already be in observations.db when the program starts.
SeedKwargs ==
    <<Kw("0.0", "41.5", "M31"), Kw("15", "41.5", "M31"), Kw("0.0", "41.5", "M32"),
      KwNoFilters>>

AddKwargs ==
    {Kw("0.0", "41.5", "M31"), Kw("15", "41.5", "M31"),
     Kw("01:00:00", "+41:30:00", "M31"), Kw("25:00:00", "41.5", "M31"),
     Kw("0.0", "91", "M31"), Kw("abc", "41.5", "M31"),
     KwNoFilters, KwNoName, KwBatchId}

AddInputs ==
    {[session |-> [observer_code |-> "irm"], save |-> TRUE, kwargs |-> k] :
        k \in AddKwargs}
    \cup {[session |-> s, save |-> FALSE, kwargs |-> Kw("0.0", "41.5", "M31")] :
            s \in Sessions}

BatchKwargs ==
    {Kw("0.0", "41.5", "M31"), Kw("15", "41.5", "M31"), Kw("25:00:00", "41.5", "M31")}

Batches == UNION {[1..n -> BatchKwargs] : n \in 0..MaxBatchLen}

BatchInputs ==
    {[session |-> [observer_code |-> "irm"], observations |-> b] : b \in Batches}
    \cup {[session |-> EmptyDict, observations |-> <<Kw("0.0", "41.5", "M31")>>]}

EditUpdates ==
    {[target_name |-> "M31"], [status |-> "scheduled"], [target_name |-> NULL],
     [request_id |-> 2], EmptyDict}

\* The row add_observation_request stores for a seed request, under request_id i.
SeedRow(i, kwargs) ==
    LET norm == ra_dec_check(kwargs.ra, kwargs.dec)
        params == Merge(Merge(DEFAULT_VALUES, kwargs),
                        [ra |-> norm.ra, dec |-> norm.dec, batch_id |-> NULL])
    IN  [InsertedRow({}, "irm", params) EXCEPT !.request_id = i]

\* Choices of n distinct seed requests, in the order of SeedKwargs: which of
\* two rows was stored first makes no difference to any operation.
SeedSeqs(n) ==
    {f \in [1..n -> 1..Len(SeedKwargs)] : \A i, j \in 1..n : i < j => f[i] < f[j]}

\* Tables the database file may hold at start: rows 1..n of distinct seed requests.
InitTables ==
    UNION {{{SeedRow(i, SeedKwargs[f[i]]) : i \in 1..n} : f \in SeedSeqs(n)} :
           n \in 0..MaxInitRows}

NoCall == [op |-> "none"]

\* Coordinate strings handed to ra_dec_check.
CoordTexts == DOMAIN Literal

\* The users table: user_id and observer_code of each user.
UserRows ==
    {[user_id |-> 1, observer_code |-> "irm"],
     [user_id |-> 2, observer_code |-> "jd"]}

UserIds == {1, 2, 3}        \* user_id arguments; no user has user_id 3
Durations == {0, 60}        \* duration_minutes arguments; 60 is the default
Zones == {0 - 1, 0, 1}      \* time zones of the host, in hours from UTC
ClockSteps == {1, Hour}     \* what the clock is moved on by, in ticks

Bogus == "bogus"            \* a token that was never issued

\* The users table with all the columns an account has.
AccountRows ==
    {[user_id |-> 1, password_hash |-> hash_password("pw1"),
      email |-> "irm@x.org", first_name |-> "Ida", last_name |-> "Moss",
      institution |-> "Macalester", observer_code |-> "irm"],
     [user_id |-> 2, password_hash |-> hash_password("pw2"),
      email |-> "jd@x.org", first_name |-> "Jo", last_name |-> "Dee",
      institution |-> "Macalester", observer_code |-> "jd"]}

Identifiers == {"irm", "jd@x.org", "nobody"}  \* what a user logs in as
Passwords == {"pw1", "pw2"}

NoSessionCall ==
    [op |-> "none", token |-> NULL, user_id |-> NoUser, duration |-> 0,
     exc |-> NoExc, user |-> NoUser]

\* No session manager at work.
SessionIdle ==
    /\ users = {}
    /\ sessions = {}
    /\ now = 0
    /\ tz = 0
    /\ advances = 0
    /\ log = [k \in {} |-> NULL]
    /\ sres = NoSessionCall

\* File paths handed to parse_schedule_file.
Paths ==
    {<<"o", ".", "c", "s", "v">>,
     <<"o", ".", "C", "S", "V">>,
     <<"o", ".", "e", "c", "s", "v">>,
     <<"o", ".", "s", "c", "h">>,
     <<"o", ".", "S", "c", "h">>,
     <<"o", ".", "t", "x", "t">>,
     <<"o", ".", "T", "X", "T">>,
     <<"o", ".", "j", "s", "o", "n">>,
     <<"o", ".", "x", "l", "s", "x">>,
     <<"o", ".", "s", "c", "h", ".", "b", "a", "k">>,
     <<"o", ".", "t", "x", "t", ".">>,
     <<"o">>,
     <<".", "s", "c", "h">>,
     <<"d", ".", "s", "c", "h", "/", "o">>}

\* Lines of a schedule file.
BlankLine == <<SP>>
CommentLine == <<"#", SP, "M31">>
GoodLine ==
    <<"source", SP, Q, "M31", Q, SP, "ra", SP, "00:42:44", SP,
      "dec", SP, "41:16:09">>
FullLine ==
    <<SP, "target", SP, Q, "M", SP, "42", Q, SP, "ra", SP, "05:35:17", SP,
      "dec", SP, "-05:23:28", SP, "nexp", SP, "3", SP,
      "exposure_time", SP, "30", SP, "filters", SP, "r">>
NoNameLine ==
    <<"target", "_name", SP, "M31", SP, "ra", SP, "00:42:44", SP,
      "dec", SP, "41:16:09">>
NoDecLine == <<"source", SP, Q, "M31", Q, SP, "ra", SP, "00:42:44">>
GroupLine ==
    <<"source", SP, Q, "M31", Q, SP, "ra", SP, "00:42:44", SP,
      "dec", SP, "41:16:09", SP, "group", SP, "1">>
BadNexpLine ==
    <<"source", SP, Q, "M31", Q, SP, "ra", SP, "00:42:44", SP,
      "dec", SP, "41:16:09", SP, "nexp", SP, "1.5">>
OtherLine == <<"exposure", SP, "30">>

Lines ==
    {BlankLine, CommentLine, GoodLine, FullLine, NoNameLine, NoDecLine,
     GroupLine, BadNexpLine, OtherLine}

\* pandas has not told what it makes of the file.
NoCsv == [exc |-> "unknown", records |-> <<>>]

\* Files of lines; pandas raises EmptyDataError on the one without any.
LineFiles ==
    {[lines |-> l,
      csv |-> IF l = <<>>
              THEN [exc |-> "EmptyDataError", records |-> <<>>]
              ELSE NoCsv] :
        l \in UNION {[1..n -> Lines] : n \in 0..MaxLines}}

\* Files of comma-separated values: a header and n rows.
CsvHeader == <<"target", "_name,ra,dec">>
CsvRow == <<"M31,00:42:44,41:16:09">>
CsvRecord == [target_name |-> "M31", ra |-> "00:42:44", dec |-> "41:16:09"]
CsvFiles ==
    {[lines |-> <<CsvHeader>> \o [i \in 1..n |-> CsvRow],
      csv |-> [exc |-> NoExc, records |-> [i \in 1..n |-> CsvRecord]]] :
        n \in 0..(MaxLines - 1)}

\* The files handed to parse_schedule_file: a path, whether there is a file
\* at it, and what is in it.  A file that goes to pandas is one of those
\* pandas is known to read or to refuse.
ContentsAt(p) ==
    {c \in LineFiles \cup CsvFiles :
        lower(splitext(p)) \in CsvExtensions => c.csv # NoCsv}

Files ==
    UNION {{[path |-> p, exists |-> TRUE, lines |-> c.lines, csv |-> c.csv] :
               c \in ContentsAt(p)} : p \in Paths}
    \cup {[path |-> p, exists |-> FALSE, lines |-> <<>>, csv |-> NoCsv] :
             p \in Paths}

\* The people add_user is called for, all of one institution.
Names ==
    {[first_name |-> <<"A", "l">>, last_name |-> <<"M", "o", "e">>],
     [first_name |-> <<"B", "e", "a">>, last_name |-> <<"M", "o">>]}

InstitutionCode == "M"

NoGen ==
    [stage |-> "idle", institution_code |-> "", first_name |-> <<>>,
     last_name |-> <<>>, existing_codes |-> {}, code |-> "", counter |-> 0]

\* No user is being added.
GenIdle ==
    /\ codes = {}
    /\ gen = NoGen

NoFile == [path |-> <<>>, exists |-> FALSE, lines |-> <<>>, csv |-> NoCsv]
NoParse == [stage |-> "none", exc |-> NoExc, msg |-> "", observations |-> <<>>]

\* No schedule file at hand.
ParseIdle ==
    /\ file = NoFile
    /\ parsed = NoParse

NoResult == [exc |-> NoExc, ra |-> 0, dec |-> 0]
NoCoord ==
    [stage |-> "none", ra |-> "0", dec |-> "0", out |-> NoResult,
     again |-> NoResult]

\* The outcome of a finished call is taken by its caller before any other step:
\* "ret" holds no program state, it only shows the outcome.
NoneReturning == \A c \in Callers : pc[c] # "ret"

----------------------------------------------------------------------------
(* What the claims speak of *)

\* The duplicate key of a stored row.
KeyOf(r) ==
    [observer_code |-> r.observer_code, ra |-> r.ra, dec |-> r.dec,
     target_name |-> r.target_name, filters |-> r.filters, nexp |-> r.nexp,
     exposure_time |-> r.exposure_time, status |-> r.status,
     cadence |-> r.cadence]

\* ra in hours and dec in degrees (ticks), as the parse step of ra_dec_check
\* converts them.
HoursOf(ra) ==
    IF Literal[ra].form = "sexagesimal"
    THEN hms_to_hours(Literal[ra]) ELSE Literal[ra].ticks \div 15

DegreesOf(dec) ==
    IF Literal[dec].form = "sexagesimal"
    THEN dms_to_degrees(Literal[dec]) ELSE Literal[dec].ticks

\* The coordinates are malformed or out of range.
BadCoordinates(kwargs) ==
    \/ Literal[kwargs.ra].form = "malformed"
    \/ Literal[kwargs.dec].form = "malformed"
    \/ HoursOf(kwargs.ra) < 0
    \/ HoursOf(kwargs.ra) >= 24 * TicksPerUnit
    \/ DegreesOf(kwargs.dec) < 0 - 90 * TicksPerUnit
    \/ DegreesOf(kwargs.dec) > 90 * TicksPerUnit

\* The duplicate key of a request with good coordinates: its fields over the
\* defaults, ra and dec normalised.
RequestKey(observer_code, kwargs) ==
    [observer_code |-> observer_code,
     ra |-> FloatText(HoursOf(kwargs.ra)),
     dec |-> FloatText(DegreesOf(kwargs.dec)),
     target_name |-> Get(kwargs, "target_name", DEFAULT_VALUES.target_name),
     filters |-> Get(kwargs, "filters", DEFAULT_VALUES.filters),
     nexp |-> Get(kwargs, "nexp", DEFAULT_VALUES.nexp),
     exposure_time |-> Get(kwargs, "exposure_time", DEFAULT_VALUES.exposure_time),
     status |-> Get(kwargs, "status", DEFAULT_VALUES.status),
     cadence |-> Get(kwargs, "cadence", DEFAULT_VALUES.cadence)]

\* The rows among `rows` that hold the request.
Matching(rows, observer_code, kwargs) ==
    {r \in rows : KeyOf(r) = RequestKey(observer_code, kwargs)}

\* The fields of a candidate as is_duplicate_request is handed them, absent
\* optional fields as NULL.
CandidateKey(observer_code, kwargs) ==
    [observer_code |-> observer_code,
     ra |-> kwargs.ra,
     dec |-> kwargs.dec,
     target_name |-> Get(kwargs, "target_name",
                         "J2000-" \o kwargs.ra \o kwargs.dec),
     filters |-> Get(kwargs, "filters", NULL),
     nexp |-> kwargs.nexp,
     exposure_time |-> kwargs.exposure_time,
     status |-> Get(kwargs, "status", DEFAULT_VALUES.status),
     cadence |-> Get(kwargs, "cadence", NULL)]

\* The number a stored batch_id text stands for.
BatchIdNumber == ("5" :> 5) @@ ("1" :> 1) @@ ("6" :> 6)

\* One greater than the largest batch_id stored, or 1 if none is stored.
NextBatchId(rows) ==
    IF \A r \in rows : r.batch_id = NULL
    THEN 1
    ELSE SetMax({BatchIdNumber[r.batch_id] : r \in {x \in rows : x.batch_id # NULL}}) + 1

RequestIds(rows) == {r.request_id : r \in rows}

\* The instant, in UTC ticks, that a timestamp text written in the host's
\* local time stands for.
Instant(text) == text.sec * TicksPerSecond + text.frac - tz * Hour

\* The session rows with the token.
RowsOf(rows, token) == {s \in rows : s.session_id = token}

\* A request the program can be asked to store: a session with an observer
\* and coordinates that are well-formed and in range.
GoodRequest(session, kwargs) ==
    ValidSession(session) /\ ~BadCoordinates(kwargs)

----------------------------------------------------------------------------
(* Actions *)

Init ==
    /\ table \in InitTables
    /\ staged = [c \in Callers |-> {}]
    /\ txn = [c \in Callers |-> "none"]
    /\ pc = [c \in Callers |-> "idle"]
    /\ req = [c \in Callers |-> NoCall]
    /\ res = [c \in Callers |-> NoCall]
    /\ mainModule \in BOOLEAN
    /\ coord = NoCoord
    /\ SessionIdle
    /\ ParseIdle
    /\ GenIdle

SetDb(db) ==
    /\ table' = db.table
    /\ staged' = db.staged
    /\ txn' = db.txn

\* req[c] of an add_observation_request call; had tells whether a row holding
\* the request was there when the call began.
AddReq(c, inp) ==
    [op |-> "add", session |-> inp.session, save |-> inp.save,
     kwargs |-> inp.kwargs,
     had |-> /\ GoodRequest(inp.session, inp.kwargs)
             /\ Matching(View(Db, c), inp.session.observer_code, inp.kwargs) # {}]

\* res[c] of an add_observation_request call that ended in r.
AddRes(r) ==
    [op |-> "add", exc |-> r.exc, ret |-> r.ret, changed |-> r.db # Db]

\* Caller c enters add_observation_request and runs it up to the duplicate check.
AddCall(c, inp) ==
    /\ pc[c] = "idle"
    /\ NoneReturning
    /\ req' = [req EXCEPT ![c] = AddReq(c, inp)]
    /\ SetDb(add_check(Db, c, inp.session, inp.kwargs).db)
    /\ IF add_check(Db, c, inp.session, inp.kwargs).done
       THEN /\ pc' = [pc EXCEPT ![c] = "ret"]
            /\ res' = [res EXCEPT ![c] =
                         AddRes(add_check(Db, c, inp.session, inp.kwargs))]
       ELSE /\ pc' = [pc EXCEPT ![c] = "insert"]
            /\ res' = res
    /\ UNCHANGED mainModule
    /\ UNCHANGED <<coordVars, sessionVars, parseVars, genVars>>

\* Caller c goes on from the duplicate check: batch_idgen(), INSERT, commit.
AddInsert(c) ==
    /\ pc[c] = "insert"
    /\ NoneReturning
    /\ SetDb(add_insert(Db, c, req[c].session, req[c].save, req[c].kwargs).db)
    /\ res' = [res EXCEPT ![c] =
                 AddRes(add_insert(Db, c, req[c].session, req[c].save,
                                   req[c].kwargs))]
    /\ pc' = [pc EXCEPT ![c] = "ret"]
    /\ UNCHANGED <<req, mainModule>>
    /\ UNCHANGED <<coordVars, sessionVars, parseVars, genVars>>

\* res[c] of an add_batch_observations call that ended in r: added is the
\* number of rows the committed table has gained.
BatchRes(r) ==
    [op |-> "batch", exc |-> r.exc, error |-> r.error,
     successful |-> r.successful, failed |-> r.failed,
     added |-> Cardinality(r.db.table) - Cardinality(table),
     changed |-> r.db.table # table]

AddBatch(c, session, observations) ==
    /\ pc[c] = "idle"
    /\ NoneReturning
    /\ SetDb(add_batch_observations(Db, c, session, observations).db)
    /\ res' = [res EXCEPT ![c] =
                 BatchRes(add_batch_observations(Db, c, session, observations))]
    /\ req' = [req EXCEPT ![c] = [op |-> "batch", session |-> session,
                                  observations |-> observations]]
    /\ pc' = [pc EXCEPT ![c] = "ret"]
    /\ UNCHANGED mainModule
    /\ UNCHANGED <<coordVars, sessionVars, parseVars, genVars>>

\* res[c] of an edit_observation_request call that ended in r.
EditRes(r) ==
    [op |-> "edit", exc |-> r.exc, error |-> r.error, changed |-> r.db # Db]

Edit(c, request_id, updates) ==
    /\ pc[c] = "idle"
    /\ NoneReturning
    /\ SetDb(edit_observation_request(Db, c, request_id, updates).db)
    /\ res' = [res EXCEPT ![c] =
                 EditRes(edit_observation_request(Db, c, request_id, updates))]
    /\ req' = [req EXCEPT ![c] = [op |-> "edit", request_id |-> request_id,
                                  updates |-> updates]]
    /\ pc' = [pc EXCEPT ![c] = "ret"]
    /\ UNCHANGED mainModule
    /\ UNCHANGED <<coordVars, sessionVars, parseVars, genVars>>

\* The caller takes the outcome of its call.
Return(c) ==
    /\ pc[c] = "ret"
    /\ pc' = [pc EXCEPT ![c] = "idle"]
    /\ req' = [req EXCEPT ![c] = NoCall]
    /\ res' = [res EXCEPT ![c] = NoCall]
    /\ UNCHANGED <<table, staged, txn, mainModule>>
    /\ UNCHANGED <<coordVars, sessionVars, parseVars, genVars>>

\* The caller commits its connection itself (webform.py, after the add).
ConnectionCommit(c) ==
    /\ pc[c] = "idle"
    /\ NoneReturning
    /\ txn[c] = "write"
    /\ SetDb(Commit(Db, c))
    /\ UNCHANGED <<pc, req, res, mainModule>>
    /\ UNCHANGED <<coordVars, sessionVars, parseVars, genVars>>

\* The caller closes its connection: what is not committed is rolled back.
ConnectionClose(c) ==
    /\ pc[c] = "idle"
    /\ NoneReturning
    /\ txn[c] = "write"
    /\ SetDb(Rollback(Db, c))
    /\ UNCHANGED <<pc, req, res, mainModule>>
    /\ UNCHANGED <<coordVars, sessionVars, parseVars, genVars>>

Next ==
    \E c \in Callers :
        \/ \E inp \in AddInputs : AddCall(c, inp)
        \/ AddInsert(c)
        \/ \E inp \in BatchInputs : AddBatch(c, inp.session, inp.observations)
        \/ \E i \in 1..(MaxInitRows + 1), u \in EditUpdates : Edit(c, i, u)
        \/ Return(c)
        \/ ConnectionCommit(c)
        \/ ConnectionClose(c)

Spec == Init /\ [][Next]_vars

----------------------------------------------------------------------------
(* ra_dec_check on its own *)

SchedIdle ==
    /\ table = {}
    /\ staged = [c \in Callers |-> {}]
    /\ txn = [c \in Callers |-> "none"]
    /\ pc = [c \in Callers |-> "idle"]
    /\ req = [c \in Callers |-> NoCall]
    /\ res = [c \in Callers |-> NoCall]
    /\ mainModule = FALSE

CoordInit ==
    /\ SchedIdle
    /\ SessionIdle
    /\ ParseIdle
    /\ GenIdle
    /\ \E ra \in CoordTexts, dec \in CoordTexts :
          coord = [NoCoord EXCEPT !.stage = "input", !.ra = ra, !.dec = dec]

\* ra_dec_check(ra, dec)
Normalize ==
    /\ coord.stage = "input"
    /\ coord' = [coord EXCEPT !.stage = "normalized",
                              !.out = ra_dec_check(coord.ra, coord.dec)]
    /\ UNCHANGED <<schedVars, sessionVars, parseVars, genVars>>

\* ra_dec_check(*ra_dec_check(ra, dec))
Renormalize ==
    /\ coord.stage = "normalized"
    /\ coord.out.exc = NoExc
    /\ coord' = [coord EXCEPT !.stage = "again",
                              !.again = ra_dec_check_floats(coord.out.ra,
                                                            coord.out.dec)]
    /\ UNCHANGED <<schedVars, sessionVars, parseVars, genVars>>

\* ra_dec_check on the returned pair written out as text, as the ra and dec
\* columns hold it.
RenormalizeText ==
    /\ coord.stage = "normalized"
    /\ coord.out.exc = NoExc
    /\ FloatText(coord.out.ra) \in CoordTexts
    /\ FloatText(coord.out.dec) \in CoordTexts
    /\ coord' = [coord EXCEPT !.stage = "againText",
                              !.again = ra_dec_check(FloatText(coord.out.ra),
                                                     FloatText(coord.out.dec))]
    /\ UNCHANGED <<schedVars, sessionVars, parseVars, genVars>>

CoordNext == Normalize \/ Renormalize \/ RenormalizeText

CoordSpec == CoordInit /\ [][CoordNext]_vars

----------------------------------------------------------------------------
(* The session manager under a clock *)

SessionInit ==
    /\ SchedIdle
    /\ coord = NoCoord
    /\ users = UserRows
    /\ sessions = {}
    /\ now = 0
    /\ tz \in Zones
    /\ advances = 0
    /\ log = [k \in {} |-> NULL]
    /\ sres = NoSessionCall
    /\ ParseIdle
    /\ GenIdle

\* Tokens a caller may hold: those issued, and one that never was.
Tokens == DOMAIN log \cup {Bogus}

AllTokens == {token_hex(n) : n \in 1..MaxSessions} \cup {Bogus}

StartSession(user_id, duration_minutes) ==
    /\ Cardinality(DOMAIN log) < MaxSessions
    /\ LET token == token_hex(Cardinality(DOMAIN log) + 1)
           r == start_session(sessions, now, token, user_id, duration_minutes)
       IN  /\ sessions' = r.sessions
           /\ log' = IF r.exc = NoExc
                     THEN [k \in DOMAIN log \cup {token} |->
                             IF k = token
                             THEN [user_id |-> user_id,
                                   duration |-> duration_minutes,
                                   started |-> now, ended |-> FALSE]
                             ELSE log[k]]
                     ELSE log
           /\ sres' = [op |-> "start", token |-> r.token, user_id |-> user_id,
                       duration |-> duration_minutes, exc |-> r.exc,
                       user |-> NoUser]
    /\ UNCHANGED <<users, now, tz, advances>>
    /\ UNCHANGED <<schedVars, coordVars, parseVars, genVars>>

ValidateSession(token) ==
    /\ token \in Tokens
    /\ sres' = [NoSessionCall EXCEPT
                  !.op = "validate", !.token = token,
                  !.user = validate_session(sessions, now, token)]
    /\ UNCHANGED <<users, sessions, now, tz, advances, log>>
    /\ UNCHANGED <<schedVars, coordVars, parseVars, genVars>>

EndSession(token) ==
    /\ token \in Tokens
    /\ sessions' = end_session(sessions, token)
    /\ log' = [k \in DOMAIN log |->
                 IF k = token THEN [log[k] EXCEPT !.ended = TRUE] ELSE log[k]]
    /\ sres' = [NoSessionCall EXCEPT !.op = "end", !.token = token]
    /\ UNCHANGED <<users, now, tz, advances>>
    /\ UNCHANGED <<schedVars, coordVars, parseVars, genVars>>

\* Time passes.
Tick(d) ==
    /\ advances < MaxAdvances
    /\ now' = now + d
    /\ advances' = advances + 1
    /\ UNCHANGED <<users, sessions, tz, log, sres>>
    /\ UNCHANGED <<schedVars, coordVars, parseVars, genVars>>

SessionNext ==
    \/ \E u \in UserIds, d \in Durations : StartSession(u, d)
    \/ \E token \in AllTokens : ValidateSession(token)
    \/ \E token \in AllTokens : EndSession(token)
    \/ \E d \in ClockSteps : Tick(d)

SessionSpec == SessionInit /\ [][SessionNext]_vars

----------------------------------------------------------------------------
(* Accounts: log in, reset a password *)

AccountInit ==
    /\ SchedIdle
    /\ coord = NoCoord
    /\ ParseIdle
    /\ GenIdle
    /\ users = AccountRows
    /\ sessions = {}
    /\ now = 0
    /\ tz \in Zones
    /\ advances = 0
    /\ log = [k \in {} |-> NULL]
    /\ sres = NoSessionCall

LoginUser(identifier, password) ==
    /\ Cardinality(DOMAIN log) < MaxSessions
    /\ LET token == token_hex(Cardinality(DOMAIN log) + 1)
           r == login_user(sessions, now, token, identifier, password)
       IN  /\ sessions' = r.sessions
           /\ log' = IF r.token # NULL
                     THEN [k \in DOMAIN log \cup {token} |->
                             IF k = token
                             THEN [user_id |->
                                      Column(validate_user_by_identifier(
                                                 identifier), 0).val,
                                   duration |-> 60,
                                   started |-> now, ended |-> FALSE]
                             ELSE log[k]]
                     ELSE log
           /\ sres' = [op |-> "login", token |-> r.token, exc |-> r.exc,
                       identifier |-> identifier, password |-> password]
    /\ UNCHANGED <<users, now, tz, advances>>
    /\ UNCHANGED <<schedVars, coordVars, parseVars, genVars>>

ResetPassword(token, user_id, new_password) ==
    /\ token \in Tokens
    /\ users' = reset_password(sessions, now, token, user_id, new_password)
    /\ sres' = [op |-> "reset", token |-> token, user_id |-> user_id,
                password |-> new_password, exc |-> NoExc]
    /\ UNCHANGED <<sessions, now, tz, advances, log>>
    /\ UNCHANGED <<schedVars, coordVars, parseVars, genVars>>

AccountNext ==
    \/ \E identifier \in Identifiers, password \in Passwords :
          LoginUser(identifier, password)
    \/ \E token \in AllTokens, user_id \in UserIds, password \in Passwords :
          ResetPassword(token, user_id, password)
    \/ \E user_id \in UserIds : StartSession(user_id, 60)
    \/ \E token \in AllTokens : EndSession(token)
    \/ \E d \in ClockSteps : Tick(d)

AccountSpec == AccountInit /\ [][AccountNext]_vars

----------------------------------------------------------------------------
(* add_user and generate_observer_code *)

GenInit ==
    /\ SchedIdle
    /\ coord = NoCoord
    /\ SessionIdle
    /\ ParseIdle
    /\ codes = {}
    /\ gen = NoGen

\* add_user reads the codes of the users table and calls
\* generate_observer_code, which sets base_code, code and counter.
AddUser(name) ==
    /\ gen.stage \in {"idle", "returned"}
    /\ Cardinality(codes) < MaxUsers
    /\ gen' = [stage |-> "loop",
               institution_code |-> InstitutionCode,
               first_name |-> name.first_name,
               last_name |-> name.last_name,
               existing_codes |-> codes,
               code |-> base_code(InstitutionCode, name.first_name,
                                  name.last_name),
               counter |-> 1]
    /\ UNCHANGED codes
    /\ UNCHANGED <<schedVars, coordVars, sessionVars, parseVars>>

\* One turn of the while loop.
LoopBody ==
    /\ gen.stage = "loop"
    /\ Taken(gen.code, gen.existing_codes)
    /\ gen' = [gen EXCEPT
                 !.code = next_code(gen.institution_code, gen.first_name,
                                    gen.last_name, gen.counter),
                 !.counter = Counter(gen.counter + 1, gen.first_name,
                                     gen.last_name)]
    /\ UNCHANGED codes
    /\ UNCHANGED <<schedVars, coordVars, sessionVars, parseVars>>

\* The loop ends, generate_observer_code returns code and add_user inserts
\* the user with it.
ReturnCode ==
    /\ gen.stage = "loop"
    /\ ~Taken(gen.code, gen.existing_codes)
    /\ gen' = [gen EXCEPT !.stage = "returned"]
    /\ codes' = codes \cup {gen.code}
    /\ UNCHANGED <<schedVars, coordVars, sessionVars, parseVars>>

GenNext ==
    \/ \E name \in Names : AddUser(name)
    \/ LoopBody
    \/ ReturnCode

GenSpec == GenInit /\ [][GenNext]_vars

\* The program runs on: a loop that can take a turn takes it.
GenLiveSpec ==
    GenSpec /\ WF_vars(LoopBody) /\ WF_vars(ReturnCode)

----------------------------------------------------------------------------
(* parse_schedule_file on its own *)

ParseInit ==
    /\ table = {}
    /\ staged = [c \in Callers |-> {}]
    /\ txn = [c \in Callers |-> "none"]
    /\ pc = [c \in Callers |-> "idle"]
    /\ req = [c \in Callers |-> NoCall]
    /\ res = [c \in Callers |-> NoCall]
    /\ mainModule \in BOOLEAN
    /\ coord = NoCoord
    /\ SessionIdle
    /\ GenIdle
    /\ file \in Files
    /\ parsed = [NoParse EXCEPT !.stage = "input"]

\* parse_schedule_file(file_path)
Parse ==
    /\ parsed.stage = "input"
    /\ LET r == parse_schedule_file(Db, file)
       IN  parsed' = [stage |-> "done", exc |-> r.exc, msg |-> r.msg,
                      observations |-> r.observations]
    /\ UNCHANGED file
    /\ UNCHANGED <<schedVars, coordVars, sessionVars, genVars>>

ParseNext == Parse

ParseSpec == ParseInit /\ [][ParseNext]_vars

----------------------------------------------------------------------------
(* Claims *)

\* Caller c has just finished a call of `op`; the database is as the call left it.
Finished(c, op) == pc[c] = "ret" /\ req[c].op = op

Alone(c) == \A d \in Callers \ {c} : pc[d] = "idle"

\* C1: for a request with valid coordinates, add_observation_request returns
\* Inserted when no row held the request and Duplicate when one did, so that
\* of two identical calls in a row the first returns Inserted and the second
\* Duplicate, and exactly one row holds the request afterward.
C1_SubmitTwice ==
    \A c \in Callers :
        (/\ Finished(c, "add")
         /\ Alone(c)
         /\ GoodRequest(req[c].session, req[c].kwargs))
        => /\ res[c].exc = NoExc
           /\ res[c].ret = (IF req[c].had THEN Duplicate ELSE Inserted)
           /\ Cardinality(Matching(View(Db, c), req[c].session.observer_code,
                                   req[c].kwargs)) = 1

\* C2: no two stored rows of the same observer agree on the whole duplicate key.
C2_UniqueKey ==
    \A r1, r2 \in table :
        (r1 # r2 /\ r1.observer_code = r2.observer_code) => KeyOf(r1) # KeyOf(r2)

\* C3: the duplicate check and the insert are one atomic unit: never have two
\* concurrent callers with identical requests of one observer both passed the
\* duplicate check while neither has inserted.
C3_CheckInsertAtomic ==
    \A c, d \in Callers :
        (/\ c # d
         /\ pc[c] = "insert"
         /\ pc[d] = "insert")
        => ~(/\ req[c].session = req[d].session
             /\ req[c].kwargs = req[d].kwargs)

\* C4: over valid requests add_batch_observations ends with its commit and
\* counts Inserted as succeeded and Duplicate as failed: succeeded + failed is
\* the length of the sequence, the table gains succeeded rows, and a request
\* repeating an earlier one of the batch is among the failed.
C4_BatchCounts ==
    \A c \in Callers :
        (/\ Finished(c, "batch")
         /\ \A i \in 1..Len(req[c].observations) :
                GoodRequest(req[c].session, req[c].observations[i]))
        => /\ res[c].exc = NoExc
           /\ res[c].error = NoExc
           /\ res[c].successful + res[c].failed = Len(req[c].observations)
           /\ res[c].added = res[c].successful
           /\ res[c].failed >=
                Cardinality({j \in 1..Len(req[c].observations) :
                               \E i \in 1..(j - 1) :
                                  req[c].observations[i] = req[c].observations[j]})

\* C5: when a storage error stops add_batch_observations, the committed table
\* is the table before the call and the connection is left with no staged row
\* and no open transaction.
C5_StorageErrorRollsBack ==
    \A c \in Callers :
        (/\ Finished(c, "batch")
         /\ (res[c].error \in SqliteErrors \/ res[c].exc \in SqliteErrors))
        => /\ ~res[c].changed
           /\ staged[c] = {}
           /\ txn[c] = "none"

\* C5 witness: a batch with a request to store was stopped by a storage error.
C5_Witness ==
    \E c \in Callers :
        /\ Finished(c, "batch")
        /\ res[c].error \in SqliteErrors
        /\ Len(req[c].observations) > 0

\* C6: a storage failure inside add_batch_observations or
\* edit_observation_request is raised to the caller, with the transaction
\* rolled back.
C6_StorageErrorSurfaced ==
    \A c \in Callers :
        ((Finished(c, "batch") \/ Finished(c, "edit"))
         /\ (res[c].error \in SqliteErrors \/ res[c].exc \in SqliteErrors))
        => /\ res[c].exc \in SqliteErrors
           /\ staged[c] = {}
           /\ txn[c] = "none"

\* C7: a record with bad coordinates does not stop add_batch_observations:
\* the call raises nothing and every other record of the batch is in the
\* committed table afterward.
C7_BadRecordSkipped ==
    \A c \in Callers :
        (/\ Finished(c, "batch")
         /\ ValidSession(req[c].session)
         /\ \E i \in 1..Len(req[c].observations) :
                BadCoordinates(req[c].observations[i]))
        => /\ res[c].exc = NoExc
           /\ \A i \in 1..Len(req[c].observations) :
                ~BadCoordinates(req[c].observations[i])
                => Matching(table, req[c].session.observer_code,
                            req[c].observations[i]) # {}

\* C8: an add_observation_request that returns Duplicate has written nothing:
\* committed rows, staged rows and transactions are as before the call.
C8_DuplicateWritesNothing ==
    \A c \in Callers :
        (/\ Finished(c, "add")
         /\ res[c].exc = NoExc
         /\ res[c].ret = Duplicate)
        => ~res[c].changed

\* C8 witness: a call found its request in the table and returned Duplicate.
C8_Witness ==
    \E c \in Callers :
        /\ Finished(c, "add")
        /\ res[c].exc = NoExc
        /\ res[c].ret = Duplicate
        /\ req[c].had

\* C9: add_observation_request with a malformed or out-of-range ra or dec
\* raises ValueError and writes nothing.
C9_BadCoordinatesRejected ==
    \A c \in Callers :
        (/\ pc[c] # "idle"
         /\ req[c].op = "add"
         /\ ValidSession(req[c].session)
         /\ BadCoordinates(req[c].kwargs))
        => /\ pc[c] = "ret"
           /\ res[c].exc = "ValueError"
           /\ ~res[c].changed

\* C9 witness: a call with an out-of-range ra, and one with a malformed ra,
\* has ended.
C9_Witness ==
    \E c \in Callers :
        /\ Finished(c, "add")
        /\ ValidSession(req[c].session)
        /\ req[c].kwargs.ra \in {"25:00:00", "abc"}
        /\ res[c].exc = "ValueError"

\* C10: a request whose normalised ra and dec and other key fields are those
\* of a stored row of the same observer is reported Duplicate, whatever the
\* text its ra and dec were given in.
C10_DuplicateOnNormalized ==
    \A c \in Callers :
        (/\ pc[c] # "idle"
         /\ req[c].op = "add"
         /\ req[c].had)
        => /\ pc[c] = "ret"
           /\ res[c].exc = NoExc
           /\ res[c].ret = Duplicate

\* C11: is_duplicate_request finds a candidate a duplicate exactly when a
\* stored row of the observer equals it on every field of the key, two absent
\* (NULL) optional fields counting as equal, filters included.
C11_NullSafeEquality ==
    \A c \in Callers :
        \A inp \in AddInputs :
            (ValidSession(inp.session) /\ ~BadCoordinates(inp.kwargs))
            => (is_duplicate_request(View(Db, c), inp.session.observer_code,
                                     inp.kwargs)
                <=> \E r \in View(Db, c) :
                       KeyOf(r) = CandidateKey(inp.session.observer_code,
                                               inp.kwargs))

\* C12: batch_idgen returns 1 when no stored row has a batch_id and otherwise
\* one more than the largest batch_id stored, whenever add_observation_request
\* comes to call it.
C12_BatchIdgenValue ==
    \A c \in Callers :
        pc[c] = "insert"
        => batch_idgen(Db) = [exc |-> NoExc, val |-> NextBatchId(table)]

\* C13: the batch_id is allocated in the transaction of the insert it serves:
\* of two concurrent callers that are both past the duplicate check and about
\* to allocate a batch_id, one holds the write transaction.
C13_AllocationInTransaction ==
    \A c, d \in Callers :
        (/\ c # d
         /\ pc[c] = "insert"
         /\ pc[d] = "insert"
         /\ "batch_id" \notin DOMAIN req[c].kwargs
         /\ "batch_id" \notin DOMAIN req[d].kwargs)
        => (txn[c] = "write" \/ txn[d] = "write")

\* C14: an add_observation_request of a valid request that no row holds returns
\* Inserted and leaves exactly one row holding it, stored with the batch_id the
\* caller gave or, when it gave none, with the value the allocator returns.
C14_InsertStoresBatchId ==
    \A c \in Callers :
        (/\ Finished(c, "add")
         /\ Alone(c)
         /\ GoodRequest(req[c].session, req[c].kwargs)
         /\ "target_name" \in DOMAIN req[c].kwargs
         /\ ~req[c].had)
        => /\ res[c].exc = NoExc
           /\ res[c].ret = Inserted
           /\ Cardinality(Matching(View(Db, c), req[c].session.observer_code,
                                   req[c].kwargs)) = 1
           /\ \A r \in Matching(View(Db, c), req[c].session.observer_code,
                                req[c].kwargs) :
                r.batch_id = Get(req[c].kwargs, "batch_id",
                                 ToString(NextBatchId(View(Db, c) \ {r})))

\* C15: edit_observation_request with updates and a request_id no row has
\* raises a not-found error.
C15_EditNotFound ==
    \A c \in Callers :
        (/\ Finished(c, "edit")
         /\ DOMAIN req[c].updates # {}
         /\ "request_id" \notin DOMAIN req[c].updates
         /\ LockFree(Db, c)
         /\ req[c].request_id \notin RequestIds(View(Db, c)))
        => res[c].exc = "NotFoundError"

\* C16: edit_observation_request with no updates raises nothing, logs no error
\* and leaves rows, staged rows and transactions as they were.
C16_EmptyEditNoOp ==
    \A c \in Callers :
        (Finished(c, "edit") /\ DOMAIN req[c].updates = {})
        => /\ res[c].exc = NoExc
           /\ res[c].error = NoExc
           /\ ~res[c].changed

\* C16 witness: an edit of a stored row with no updates has ended.
C16_Witness ==
    \E c \in Callers :
        /\ Finished(c, "edit")
        /\ DOMAIN req[c].updates = {}
        /\ req[c].request_id \in RequestIds(table)

\* C17: an edit_observation_request that succeeds leaves every row with
\* another request_id as it was, gives the row with the request_id the
\* updates' values in the fields they name and its old values in all others,
\* and adds and removes no row.
C17_EditFrame ==
    [][\A c \in Callers :
          (/\ pc[c] = "idle"
           /\ pc'[c] = "ret"
           /\ req'[c].op = "edit"
           /\ DOMAIN req'[c].updates # {}
           /\ res'[c].exc = NoExc
           /\ res'[c].error = NoExc)
          => /\ Cardinality(table') = Cardinality(table)
             /\ \A r \in table :
                   IF r.request_id # req'[c].request_id
                   THEN r \in table'
                   ELSE \E r2 \in table' :
                           \A k \in DOMAIN r :
                              r2[k] = Get(req'[c].updates, k, r[k])]_vars

\* C17 witness: an edit of one row's status has succeeded, with another row
\* in the table.
C17_Witness ==
    \E c \in Callers :
        /\ Finished(c, "edit")
        /\ req[c].updates = [status |-> "scheduled"]
        /\ res[c].exc = NoExc
        /\ res[c].error = NoExc
        /\ \E r \in table :
              r.request_id = req[c].request_id /\ r.status = "scheduled"
        /\ \E r \in table :
              r.request_id # req[c].request_id /\ r.status # "scheduled"

C20_DefaultTargetName ==
    \A c \in Callers :
        (/\ Finished(c, "add")
         /\ Alone(c)
         /\ GoodRequest(req[c].session, req[c].kwargs)
         /\ "target_name" \notin DOMAIN req[c].kwargs)
        => \E r \in View(Db, c) :
              /\ r.observer_code = req[c].session.observer_code
              /\ r.target_name =
                   "J2000-" \o req[c].kwargs.ra \o req[c].kwargs.dec

\* C21: for a well-formed pair ra_dec_check raises its range error exactly
\* when the ra in hours is outside [0, 24) or the dec in degrees outside
\* [-90, 90], and otherwise returns the converted pair.
C21_RangeError ==
    (/\ coord.stage = "normalized"
     /\ Literal[coord.ra].form # "malformed"
     /\ Literal[coord.dec].form # "malformed")
    => /\ coord.out.exc = "ValueError"
          <=> (\/ HoursOf(coord.ra) < 0
               \/ HoursOf(coord.ra) >= 24 * TicksPerUnit
               \/ DegreesOf(coord.dec) < 0 - 90 * TicksPerUnit
               \/ DegreesOf(coord.dec) > 90 * TicksPerUnit)
       /\ coord.out.exc = NoExc
          => /\ coord.out.ra = HoursOf(coord.ra)
             /\ coord.out.dec = DegreesOf(coord.dec)
       /\ coord.out.exc \in {NoExc, "ValueError"}

\* C21 witness: ra "25:00:00" with dec "0" has been refused.
C21_Witness ==
    /\ coord.stage = "normalized"
    /\ coord.ra = "25:00:00"
    /\ coord.dec = "0"
    /\ coord.out.exc = "ValueError"

\* C22: ra_dec_check applied to the pair it returned for a valid pair returns
\* the same hours and degrees again.
C22_Idempotent ==
    coord.stage \in {"again", "againText"}
    => /\ coord.again.exc = NoExc
       /\ coord.again.ra = coord.out.ra
       /\ coord.again.dec = coord.out.dec

\* C23: for a sexagesimal dec that ra_dec_check accepts, the degrees returned
\* are below zero when the first component is written with a minus sign and
\* not below zero otherwise.
C23_DecSign ==
    (/\ coord.stage = "normalized"
     /\ Literal[coord.dec].form = "sexagesimal"
     /\ coord.out.exc = NoExc)
    => IF Literal[coord.dec].minus
       THEN coord.out.dec < 0
       ELSE coord.out.dec >= 0

\* C24: validate_session returns the user_id of the session row with the
\* token when there is one and its expires_at is later than the current time,
\* and None otherwise; so it returns the user right after a start_session
\* with a positive duration.
C24_ValidIffUnexpired ==
    \A token \in Tokens :
        validate_session(sessions, now, token) =
            (IF \E s \in RowsOf(sessions, token) : Instant(s.expires_at) > now
             THEN (CHOOSE s \in RowsOf(sessions, token) : TRUE).user_id
             ELSE NoUser)

\* C25: validate_session never returns a user for a session that was started
\* with duration_minutes = 0.
C25_ZeroDurationInvalid ==
    \A token \in DOMAIN log :
        log[token].duration = 0
        => validate_session(sessions, now, token) = NoUser

\* C26: once end_session has been called on a token, validate_session returns
\* None for it, at every later time.
C26_EndedInvalid ==
    \A token \in DOMAIN log :
        log[token].ended => validate_session(sessions, now, token) = NoUser

\* C26 witness: validate_session has been called on a session that was ended
\* before its time was up.
C26_Witness ==
    /\ sres.op = "validate"
    /\ sres.token \in DOMAIN log
    /\ log[sres.token].ended
    /\ log[sres.token].started + log[sres.token].duration * Minute > now
    /\ sres.user = NoUser

\* C27: end_session raises nothing and removes the row of its token and no
\* other: on a token without a row it leaves every row as it was.
C27_EndSessionFrame ==
    [][(now' = now /\ sres'.op = "end")
       => /\ sres'.exc = NoExc
          /\ sessions' = sessions \ RowsOf(sessions, sres'.token)]_vars

\* C27 witness: end_session has been called on a token that has no row, with
\* a session row in the table.
C27_Witness ==
    /\ sres.op = "end"
    /\ sres.token = Bogus
    /\ sessions # {}

\* C28: start_session for a user_id that no user has raises ValueError and
\* adds no row; for a user it adds exactly one row, with a new token, the
\* user_id, the user's observer_code and the expiry now + duration, and
\* returns the token.
C28_StartSession ==
    [][(now' = now /\ sres'.op = "start")
       => IF ~\E u \in users : u.user_id = sres'.user_id
          THEN /\ sres'.exc = "ValueError"
               /\ sessions' = sessions
          ELSE /\ sres'.exc = NoExc
               /\ RowsOf(sessions, sres'.token) = {}
               /\ \E s \in sessions' :
                     /\ sessions' = sessions \cup {s}
                     /\ s.session_id = sres'.token
                     /\ s.user_id = sres'.user_id
                     /\ \E u \in users : /\ u.user_id = s.user_id
                                         /\ u.observer_code = s.observer_code
                     /\ Instant(s.expires_at)
                          = now + sres'.duration * Minute]_vars

\* C28 witness: start_session has been called for a user_id that no user has.
C28_Witness ==
    /\ sres.op = "start"
    /\ ~\E u \in users : u.user_id = sres.user_id
    /\ sres.exc = "ValueError"

\* C29: a token for which validate_session returns None is one for which it
\* returns None after every step: nothing renews or revives a session.
C29_NoRevival ==
    [][\A token \in Tokens :
          validate_session(sessions, now, token) = NoUser
          => validate_session(sessions', now', token) = NoUser]_vars

\* C29 witness: validate_session has returned None for a session that has its
\* row and was not ended.
C29_Witness ==
    /\ sres.op = "validate"
    /\ sres.token \in DOMAIN log
    /\ ~log[sres.token].ended
    /\ RowsOf(sessions, sres.token) # {}
    /\ sres.user = NoUser

\* C30: parse_schedule_file on a file whose extension, lower-cased, is none of
\* .csv, .ecsv, .sch, .txt raises the unsupported-format ValueError and
\* returns no records.
C30_UnsupportedExtension ==
    (/\ parsed.stage = "done"
     /\ file.exists
     /\ lower(splitext(file.path)) \notin CsvExtensions \cup LineExtensions)
    => /\ parsed.exc = "ValueError"
       /\ parsed.msg = "Unsupported file format"
       /\ parsed.observations = <<>>

\* C30 witness: a file of well-formed observation lines under a .json name
\* has been refused.
C30_Witness ==
    /\ parsed.stage = "done"
    /\ file.exists
    /\ file.path = <<"o", ".", "j", "s", "o", "n">>
    /\ file.lines = <<GoodLine, FullLine>>
    /\ parsed.msg = "Unsupported file format"

\* The words of a line, and the word that follows the last key among them.
WordsOf(line) == split(strip(line))

HasField(line, key) ==
    \E i \in 1..(Len(WordsOf(line)) - 1) : WordsOf(line)[i] = key

FieldOf(line, key) ==
    WordsOf(line)[SetMax({i \in 1..(Len(WordsOf(line)) - 1) :
                             WordsOf(line)[i] = key}) + 1]

\* An observation line: one that begins with source, target or target_name.
ObservationLine(line) ==
    \/ startswith(strip(line), "source")
    \/ startswith(strip(line), "target")

\* An observation line with a quoted target name, an ra, a dec, and an
\* integer for nexp and for exposure_time where it gives them.
ValidLine(line) ==
    /\ ObservationLine(line)
    /\ quoted(line) \notin {NULL, ""}
    /\ HasField(line, "ra")
    /\ HasField(line, "dec")
    /\ \A k \in {"nexp", "exposure_time"} :
          HasField(line, k) => FieldOf(line, k) \in DOMAIN IntLiteral

LineFile == lower(splitext(file.path)) \in LineExtensions
CsvFile == lower(splitext(file.path)) \in CsvExtensions

\* C31: parse_schedule_file never returns an empty sequence: on a .sch or
\* .txt file without a valid observation line, and on a .csv or .ecsv file
\* without a row, it raises the ValueError of a file without observations.
C31_NeverEmpty ==
    (parsed.stage = "done" /\ file.exists /\ (LineFile \/ CsvFile))
    => /\ parsed.exc = NoExc => parsed.observations # <<>>
       /\ (\/ LineFile /\ \A i \in 1..Len(file.lines) : ~ValidLine(file.lines[i])
           \/ CsvFile /\ file.csv.exc = NoExc /\ file.csv.records = <<>>)
          => /\ parsed.exc = "ValueError"
             /\ parsed.msg = "No valid observations found in the file."

\* C31 witness: a .txt file of a comment, and a line that is skipped for its
\* missing dec, has been refused as one without observations.
C31_Witness ==
    /\ parsed.stage = "done"
    /\ file.exists
    /\ file.path = <<"o", ".", "t", "x", "t">>
    /\ file.lines = <<CommentLine, NoDecLine>>
    /\ parsed.msg = "No valid observations found in the file."

\* The record of a valid observation line: its quoted name, the fields it
\* gives, and nexp and exposure_time as integers, 1 where it gives none.
RecordOf(line) ==
    Merge([k \in {x \in FieldKeys : HasField(line, x)} |-> FieldOf(line, k)],
          [target_name |-> quoted(line),
           nexp |-> IF HasField(line, "nexp")
                    THEN IntLiteral[FieldOf(line, "nexp")] ELSE 1,
           exposure_time |-> IF HasField(line, "exposure_time")
                             THEN IntLiteral[FieldOf(line, "exposure_time")]
                             ELSE 1])

\* The records of the valid observation lines, in the order of the lines.
RecordsOf(lines) ==
    LET kept == SelectSeq(lines, ValidLine)
    IN  [i \in 1..Len(kept) |-> RecordOf(kept[i])]

Without(obs, key) == [k \in DOMAIN obs \ {key} |-> obs[k]]

\* C32: on a .sch or .txt file with a valid observation line,
\* parse_schedule_file returns the records of the valid observation lines,
\* one each, in file order; no other line contributes a record or stops the
\* parsing.
C32_LineRecords ==
    (/\ parsed.stage = "done"
     /\ file.exists
     /\ LineFile
     /\ RecordsOf(file.lines) # <<>>)
    => /\ parsed.exc = NoExc
       /\ Len(parsed.observations) = Len(RecordsOf(file.lines))
       /\ \A i \in 1..Len(parsed.observations) :
             Without(parsed.observations[i], "batch_id")
                = RecordsOf(file.lines)[i]

\* C33: parse_schedule_file on a .sch or .txt file with an observation line
\* that has no quoted substring fails with the error of a missing target
\* name; when it returns, the target_name of every record is the text between
\* the first two double quotes of a line of the file.
C33_MissingName ==
    (parsed.stage = "done" /\ file.exists /\ LineFile)
    => /\ (\E i \in 1..Len(file.lines) :
              /\ ObservationLine(file.lines[i])
              /\ quoted(file.lines[i]) = NULL)
          => /\ parsed.exc = "ValueError"
             /\ parsed.msg = "Missing target name in line"
       /\ parsed.exc = NoExc
          => \A k \in 1..Len(parsed.observations) :
                \E i \in 1..Len(file.lines) :
                   parsed.observations[k].target_name = quoted(file.lines[i])

\* C34: a valid observation line with a pair `group n` in a .sch or .txt file
\* gives a record whose batch_id is the value of the batch allocator followed
\* by n: parse_schedule_file returns, and the record is among those returned.
C34_GroupBatchId ==
    (parsed.stage = "done" /\ file.exists /\ LineFile)
    => \A i \in 1..Len(file.lines) :
          (ValidLine(file.lines[i]) /\ HasField(file.lines[i], "group"))
          => /\ parsed.exc = NoExc
             /\ \E k \in 1..Len(parsed.observations) :
                   /\ "batch_id" \in DOMAIN parsed.observations[k]
                   /\ parsed.observations[k].batch_id
                         = ToString(NextBatchId(table))
                           \o FieldOf(file.lines[i], "group")

\* The users an identifier and a password are those of.
Authenticates(identifier, password) ==
    {u \in users : /\ u.email = identifier \/ u.observer_code = identifier
                   /\ u.password_hash = hash_password(password)}

\* C35: login_user returns a token and adds one session row, of the user,
\* when the identifier is a user's email or observer_code and the password
\* is the one that user's password_hash was made of; otherwise it returns
\* None and adds no row.
C35_LoginUser ==
    [][(now' = now /\ sres'.op = "login")
       => IF Authenticates(sres'.identifier, sres'.password) # {}
          THEN /\ sres'.exc = NoExc
               /\ sres'.token # NULL
               /\ \E s \in sessions' \ sessions :
                     /\ sessions' = sessions \cup {s}
                     /\ s.session_id = sres'.token
                     /\ \E u \in Authenticates(sres'.identifier,
                                               sres'.password) :
                           u.user_id = s.user_id
          ELSE /\ sres'.exc = NoExc
               /\ sres'.token = NULL
               /\ sessions' = sessions]_vars

\* C36: reset_password changes the users table only when its session_id is
\* that of a session of user_id that has not expired, and then nothing but
\* the password_hash of user_id.
C36_ResetPassword ==
    [][(now' = now /\ sres'.op = "reset" /\ users' # users)
       => /\ \E s \in RowsOf(sessions, sres'.token) :
                /\ Instant(s.expires_at) > now
                /\ s.user_id = sres'.user_id
          /\ \A u \in users :
                u.user_id # sres'.user_id => u \in users']_vars

C38_CodeNotExisting ==
    gen.stage = "returned" => gen.code \notin gen.existing_codes

\* C38 witness: generate_observer_code has returned a code of its fallback,
\* the base code and the codes of the other letters being taken.
C38_Witness ==
    /\ gen.stage = "returned"
    /\ gen.counter > Len(gen.first_name)
    /\ gen.counter > Len(gen.last_name)
    /\ gen.code # base_code(gen.institution_code, gen.first_name,
                            gen.last_name)

\* C39: every call of generate_observer_code returns.
C39_Terminates ==
    (gen.stage = "loop") ~> (gen.stage = "returned")

====
